---- MODULE Spec2Model ----
(***************************************************************************)
(* Model of regex.py: the Tokenizer (a cursor over the pattern), the       *)
(* recursive-descent Parser (a cursor over the token list) and compile     *)
(* (the serializer of the syntax tree).                                    *)
(*                                                                         *)
(* A string is a sequence of one-character strings.  Positions are         *)
(* 0-based as in the source, so the character at pos is regex[pos + 1].    *)
(***************************************************************************)
EXTENDS Integers, Sequences, FiniteSets, TLC

(***************************************************************************)
(* Bounds of the model.                                                    *)
(***************************************************************************)
\* longest pattern drawn from the whole alphabet
MaxLen == 3
\* longest pattern drawn from the operator alphabet (letters, | * ( ) { })
MaxCoreLen == 5
\* calls of tokenize() on one Tokenizer, and of parse() on one Parser
MaxCalls == 2

\* characters for which str.isalnum() is true, among those of the alphabet
Alnum == {"a"}
\* the literal set of Tokenizer.get_next_token's first branch
Symbols == {"@", "-", "_", "%", "+", "."}

Alphabet == {"a", ".", "\\", "*", "|", "^", "$", "[", "]", "{", "}", "(", ")"}
CoreAlphabet == {"a", "*", "|", "(", ")", "{", "}"}

SeqsUpTo(S, n) == UNION {[1..k -> S] : k \in 0..n}
Patterns == SeqsUpTo(Alphabet, MaxLen) \cup SeqsUpTo(CoreAlphabet, MaxCoreLen)

(***************************************************************************)
(* Values.                                                                 *)
(***************************************************************************)
\* Python's None
None == [type |-> "None"]
Token(type, value) == [type |-> type, value |-> value]
Node(type, left, right) == [type |-> type, left |-> left, right |-> right]

\* the exceptions the code can raise, by message; AttributeError is the
\* interpreter's own error for reading .type of None
NoError == "none"
BackslashAtEnd == "ValueError: Backslash at end of regex"
UnclosedClass == "ValueError: Unclosed character class"
UnclosedQuantifier == "ValueError: Unclosed quantifier"
UnknownCharacter == "ValueError: Unknown character"
UnclosedParenthesis == "ValueError: Unclosed parenthesis"
UnexpectedToken == "ValueError: Unexpected token"
UnknownNodeType == "ValueError: Unknown node type"
AttributeError == "AttributeError: 'NoneType' object has no attribute 'type'"

(***************************************************************************)
(* Tokenizer.get_next_token                                                *)
(***************************************************************************)
\* the while loops of the '[' and '{' branches: from position p, append
\* characters to acc until the delimiter or the end of the pattern
RECURSIVE scan(_, _, _, _)
scan(re, p, acc, delim) ==
    IF p < Len(re) /\ re[p + 1] # delim
    THEN scan(re, p + 1, Append(acc, re[p + 1]), delim)
    ELSE [pos |-> p, text |-> acc]

\* a scan in which a backslash takes the next character with it
RECURSIVE scan_escapes(_, _, _, _)
scan_escapes(re, p, acc, delim) ==
    IF p < Len(re) /\ re[p + 1] # delim
    THEN IF re[p + 1] = "\\" /\ p + 1 < Len(re)
         THEN scan_escapes(re, p + 2, acc \o <<re[p + 1], re[p + 2]>>, delim)
         ELSE scan_escapes(re, p + 1, Append(acc, re[p + 1]), delim)
    ELSE [pos |-> p, text |-> acc]

\* raise: the cursor stays where the branch left it
Raise(e, p) == [err |-> e, token |-> None, pos |-> p]

\* the end of get_next_token without the increment of pos
Return_no_advance(t, p) == [err |-> NoError, token |-> t, pos |-> p]

\* the end of get_next_token: self.pos += 1; return token
Return(t, p) == [err |-> NoError, token |-> t, pos |-> p + 1]

\* the first branch's test without '.' in the literal set
is_char_without_dot(c) == c \in Alnum \/ c \in (Symbols \ {"."})

\* the first branch's test
is_char(c) == c \in Alnum \/ c \in Symbols

\* the '\\' branch
escaped_char(re, p) ==
    IF p + 1 < Len(re)
    THEN Return(Token("ESCAPED_CHAR", <<re[p + 2]>>), p + 1)
    ELSE Raise(BackslashAtEnd, p + 1)

\* the '[' branch with a scan that honours backslash escapes
char_class_escapes(re, p) ==
    LET s == scan_escapes(re, p + 1, <<>>, "]") IN
    IF s.pos >= Len(re) \/ re[s.pos + 1] # "]"
    THEN Raise(UnclosedClass, s.pos)
    ELSE Return(Token("CLASS", s.text), s.pos)

\* the '[' branch
char_class(re, p) ==
    LET s == scan(re, p + 1, <<>>, "]") IN
    IF s.pos >= Len(re) \/ re[s.pos + 1] # "]"
    THEN Raise(UnclosedClass, s.pos)
    ELSE Return(Token("CLASS", s.text), s.pos)

\* the '{' branch
quantifier(re, p) ==
    LET s == scan(re, p + 1, <<"{">>, "}") IN
    IF s.pos >= Len(re) \/ re[s.pos + 1] # "}"
    THEN Raise(UnclosedQuantifier, s.pos)
    ELSE Return(Token("QUANT", Append(s.text, "}")), s.pos)

get_next_token(re, p) ==
    IF p >= Len(re) THEN [err |-> NoError, token |-> None, pos |-> p]
    ELSE LET current_char == re[p + 1] IN
    IF is_char(current_char) THEN Return(Token("CHAR", <<current_char>>), p)
    ELSE IF current_char = "\\" THEN escaped_char(re, p)
    ELSE IF current_char = "*" THEN Return(Token("STAR", <<current_char>>), p)
    ELSE IF current_char = "|" THEN Return(Token("ALT", <<current_char>>), p)
    ELSE IF current_char = "." THEN Return(Token("DOT", <<current_char>>), p)
    ELSE IF current_char = "^" THEN Return(Token("START", <<current_char>>), p)
    ELSE IF current_char = "$" THEN Return(Token("END", <<current_char>>), p)
    ELSE IF current_char = "[" THEN char_class(re, p)
    ELSE IF current_char = "{" THEN quantifier(re, p)
    ELSE IF current_char = "(" THEN Return(Token("LPAREN", <<current_char>>), p)
    ELSE IF current_char = ")" THEN Return(Token("RPAREN", <<current_char>>), p)
    ELSE Raise(UnknownCharacter, p)

(***************************************************************************)
(* Parser.  The parser object's state is its cursor pos and current_token; *)
(* each method takes that state and gives back the state it leaves, with   *)
(* the node it returns or the exception it raises.                         *)
(***************************************************************************)
IsNone(x) == x.type = "None"

PState(p, tok) == [pos |-> p, current_token |-> tok]

\* Parser.__init__
Parser_init(toks) == PState(0, IF Len(toks) > 0 THEN toks[1] ELSE None)

\* Parser.advance
advance(toks, st) ==
    LET p == st.pos + 1 IN
    PState(p, IF p < Len(toks) THEN toks[p + 1] ELSE None)

PRaise(e, st) == [err |-> e, node |-> None, st |-> st]
PReturn(n, st) == [err |-> NoError, node |-> n, st |-> st]

LeafTypes == {"CHAR", "CLASS", "DOT", "START", "END", "ESCAPED_CHAR"}
TermStartTypes == {"CHAR", "CLASS", "DOT", "START", "END", "ESCAPED_CHAR", "LPAREN"}
PostfixTypes == {"STAR", "QUANT"}

RECURSIVE Parser_regex(_, _), regex_loop(_, _, _), term(_, _), term_loop(_, _, _)
RECURSIVE factor(_, _), factor_loop(_, _, _), atom(_, _)

\* Parser.atom
atom(toks, st) ==
    IF IsNone(st.current_token) THEN PRaise(AttributeError, st)
    ELSE IF st.current_token.type \in LeafTypes
    THEN PReturn(st.current_token, advance(toks, st))
    ELSE IF st.current_token.type = "LPAREN"
    THEN LET r == Parser_regex(toks, advance(toks, st)) IN
         IF r.err # NoError THEN r
         ELSE IF IsNone(r.st.current_token) \/ r.st.current_token.type # "RPAREN"
         THEN PRaise(UnclosedParenthesis, r.st)
         ELSE PReturn(Node("GROUP", r.node, None), advance(toks, r.st))
    ELSE PRaise(UnexpectedToken, st)

\* the while loop of Parser.factor
factor_loop(toks, node, st) ==
    IF ~IsNone(st.current_token) /\ st.current_token.type \in PostfixTypes
    THEN IF st.current_token.type = "STAR"
         THEN factor_loop(toks, Node("STAR", node, None), advance(toks, st))
         ELSE factor_loop(toks, Node("QUANT", node, st.current_token), advance(toks, st))
    ELSE PReturn(node, st)

\* Parser.factor
factor(toks, st) ==
    LET a == atom(toks, st) IN
    IF a.err # NoError THEN a ELSE factor_loop(toks, a.node, a.st)

\* the loop of Parser.term with the operands of CONCAT exchanged
term_loop_swapped(toks, node, st) ==
    IF ~IsNone(st.current_token) /\ st.current_token.type \in TermStartTypes
    THEN LET f == factor(toks, st) IN
         IF f.err # NoError THEN f
         ELSE term_loop(toks, Node("CONCAT", f.node, node), f.st)
    ELSE PReturn(node, st)

\* the while loop of Parser.term
term_loop(toks, node, st) ==
    IF ~IsNone(st.current_token) /\ st.current_token.type \in TermStartTypes
    THEN LET f == factor(toks, st) IN
         IF f.err # NoError THEN f
         ELSE term_loop(toks, Node("CONCAT", node, f.node), f.st)
    ELSE PReturn(node, st)

\* Parser.term
term(toks, st) ==
    LET f == factor(toks, st) IN
    IF f.err # NoError THEN f ELSE term_loop(toks, f.node, f.st)

\* the while loop of Parser.regex
regex_loop(toks, node, st) ==
    IF ~IsNone(st.current_token) /\ st.current_token.type = "ALT"
    THEN LET t == term(toks, advance(toks, st)) IN
         IF t.err # NoError THEN t
         ELSE regex_loop(toks, Node("ALT", node, t.node), t.st)
    ELSE PReturn(node, st)

\* Parser.regex
Parser_regex(toks, st) ==
    LET t == term(toks, st) IN
    IF t.err # NoError THEN t ELSE regex_loop(toks, t.node, t.st)

\* Parser.parse
parse(toks, st) == Parser_regex(toks, st)

(***************************************************************************)
(* compile: the syntax tree back to a pattern string                       *)
(***************************************************************************)
RECURSIVE compile(_)

\* compile with the ESCAPED_CHAR branch dropping the backslash
compile_unescaped(tree) ==
    IF tree.type = "CHAR" THEN tree.value
    ELSE IF tree.type = "STAR" THEN <<"(">> \o compile(tree.left) \o <<")", "*">>
    ELSE IF tree.type = "CONCAT" THEN compile(tree.left) \o compile(tree.right)
    ELSE IF tree.type = "ALT"
    THEN <<"(">> \o compile(tree.left) \o <<"|">> \o compile(tree.right) \o <<")">>
    ELSE IF tree.type = "CLASS" THEN <<"[">> \o tree.value \o <<"]">>
    ELSE IF tree.type = "DOT" THEN <<".">>
    ELSE IF tree.type = "START" THEN <<"^">>
    ELSE IF tree.type = "END" THEN <<"$">>
    ELSE IF tree.type = "ESCAPED_CHAR" THEN tree.value
    ELSE IF tree.type = "QUANT" THEN compile(tree.left) \o tree.right.value
    ELSE IF tree.type = "GROUP" THEN <<"(">> \o compile(tree.left) \o <<")">>
    ELSE <<UnknownNodeType>>

\* compile with the STAR branch leaving its operand unparenthesized
compile_bare_star(tree) ==
    IF tree.type = "CHAR" THEN tree.value
    ELSE IF tree.type = "STAR" THEN compile(tree.left) \o <<"*">>
    ELSE IF tree.type = "CONCAT" THEN compile(tree.left) \o compile(tree.right)
    ELSE IF tree.type = "ALT"
    THEN <<"(">> \o compile(tree.left) \o <<"|">> \o compile(tree.right) \o <<")">>
    ELSE IF tree.type = "CLASS" THEN <<"[">> \o tree.value \o <<"]">>
    ELSE IF tree.type = "DOT" THEN <<".">>
    ELSE IF tree.type = "START" THEN <<"^">>
    ELSE IF tree.type = "END" THEN <<"$">>
    ELSE IF tree.type = "ESCAPED_CHAR" THEN <<"\\">> \o tree.value
    ELSE IF tree.type = "QUANT" THEN compile(tree.left) \o tree.right.value
    ELSE IF tree.type = "GROUP" THEN <<"(">> \o compile(tree.left) \o <<")">>
    ELSE <<UnknownNodeType>>

compile(tree) ==
    IF tree.type = "CHAR" THEN tree.value
    ELSE IF tree.type = "STAR" THEN <<"(">> \o compile(tree.left) \o <<")", "*">>
    ELSE IF tree.type = "CONCAT" THEN compile(tree.left) \o compile(tree.right)
    ELSE IF tree.type = "ALT"
    THEN <<"(">> \o compile(tree.left) \o <<"|">> \o compile(tree.right) \o <<")">>
    ELSE IF tree.type = "CLASS" THEN <<"[">> \o tree.value \o <<"]">>
    ELSE IF tree.type = "DOT" THEN <<".">>
    ELSE IF tree.type = "START" THEN <<"^">>
    ELSE IF tree.type = "END" THEN <<"$">>
    ELSE IF tree.type = "ESCAPED_CHAR" THEN <<"\\">> \o tree.value
    ELSE IF tree.type = "QUANT" THEN compile(tree.left) \o tree.right.value
    ELSE IF tree.type = "GROUP" THEN <<"(">> \o compile(tree.left) \o <<")">>
    ELSE <<UnknownNodeType>>

(***************************************************************************)
(* State.                                                                  *)
(***************************************************************************)
VARIABLES
    run,            \* 1: the user's pattern; 2: the compiled pattern fed back
    regex,          \* Tokenizer.regex
    pos,            \* Tokenizer.pos
    tstate,         \* "idle", "loop" (inside tokenize) or "raised"
    tlist,          \* the local list tokens of the running tokenize call
    gnt_calls,      \* get_next_token calls made by the running tokenize call
    tret,           \* the lists returned by the tokenize calls, in order
    terr,           \* the exception tokenize raised
    parser,         \* None, or the Parser's tokens, pos and current_token
    pret,           \* the outcomes of the parse calls, in order
    compiled_regex  \* None, or compile(tree)

vars == <<run, regex, pos, tstate, tlist, gnt_calls, tret, terr, parser, pret,
          compiled_regex>>

\* Tokenizer.__init__
Tokenizer_init(re) ==
    /\ regex = re
    /\ pos = 0
    /\ tstate = "idle"
    /\ tlist = <<>>
    /\ gnt_calls = 0
    /\ tret = <<>>
    /\ terr = NoError
    /\ parser = None
    /\ pret = <<>>
    /\ compiled_regex = None

Init == run = 1 /\ \E re \in Patterns : Tokenizer_init(re)

\* Tokenizer.tokenize is entered: tokens = []
TokenizeCall ==
    /\ tstate = "idle"
    /\ Len(tret) < MaxCalls
    /\ tstate' = "loop"
    /\ tlist' = <<>>
    /\ gnt_calls' = 0
    /\ UNCHANGED <<run, regex, pos, tret, terr, parser, pret, compiled_regex>>

\* one iteration of tokenize's while loop: a get_next_token call
GetNextToken ==
    /\ tstate = "loop"
    /\ pos < Len(regex)
    /\ LET r == get_next_token(regex, pos) IN
       /\ pos' = r.pos
       /\ gnt_calls' = gnt_calls + 1
       /\ IF r.err # NoError
          THEN tstate' = "raised" /\ terr' = r.err /\ tlist' = tlist
          ELSE /\ tstate' = tstate
               /\ terr' = terr
               /\ tlist' = IF IsNone(r.token) THEN tlist ELSE Append(tlist, r.token)
    /\ UNCHANGED <<run, regex, tret, parser, pret, compiled_regex>>

\* tokenize's while loop ends: return tokens
TokenizeReturn ==
    /\ tstate = "loop"
    /\ ~(pos < Len(regex))
    /\ tstate' = "idle"
    /\ tret' = Append(tret, tlist)
    /\ UNCHANGED <<run, regex, pos, tlist, gnt_calls, terr, parser, pret, compiled_regex>>

\* the script's tokens: the list the first tokenize call returned
tokens == tret[1]

\* parser = Parser(tokens)
NewParser ==
    /\ Len(tret) >= 1
    /\ IsNone(parser)
    /\ parser' = [type |-> "Parser", tokens |-> tokens, st |-> Parser_init(tokens)]
    /\ UNCHANGED <<run, regex, pos, tstate, tlist, gnt_calls, tret, terr, pret,
                   compiled_regex>>

\* a parser.parse() call, from the cursor the Parser object holds
ParseCall ==
    /\ ~IsNone(parser)
    /\ Len(pret) < MaxCalls
    /\ \A i \in 1..Len(pret) : pret[i].err = NoError
    /\ LET r == parse(parser.tokens, parser.st) IN
       /\ parser' = [parser EXCEPT !.st = r.st]
       /\ pret' = Append(pret, [err |-> r.err, node |-> r.node])
    /\ UNCHANGED <<run, regex, pos, tstate, tlist, gnt_calls, tret, terr, compiled_regex>>

\* the script's tree: what the first parse call returned
tree == pret[1].node

\* compiled_regex = compile(tree)
Compile ==
    /\ Len(pret) >= 1
    /\ pret[1].err = NoError
    /\ IsNone(compiled_regex)
    /\ compiled_regex' = [type |-> "str", value |-> compile(tree)]
    /\ UNCHANGED <<run, regex, pos, tstate, tlist, gnt_calls, tret, terr, parser, pret>>

\* the compiled pattern is given to a new Tokenizer (the round trip)
Reenter ==
    /\ run = 1
    /\ ~IsNone(compiled_regex)
    /\ tstate = "idle"
    /\ run' = 2
    /\ regex' = compiled_regex.value
    /\ pos' = 0
    /\ tstate' = "idle"
    /\ tlist' = <<>>
    /\ gnt_calls' = 0
    /\ tret' = <<>>
    /\ terr' = NoError
    /\ parser' = None
    /\ pret' = <<>>
    /\ compiled_regex' = None

Next ==
    \/ TokenizeCall
    \/ GetNextToken
    \/ TokenizeReturn
    \/ NewParser
    \/ ParseCall
    \/ Compile
    \/ Reenter

Spec == Init /\ [][Next]_vars

(***************************************************************************)
(* Properties.                                                             *)
(***************************************************************************)
\* the first tokenize call returned, the first parse call returned a tree
Tokenized == Len(tret) >= 1
Parsed == Len(pret) >= 1 /\ pret[1].err = NoError

\* C1: round trip. Every compiled pattern, given to a new Tokenizer and
\* Parser, is tokenized and parsed without an exception: in the second run
\* tokenize never raises and the first parse call never raises.
C1_RoundTripAccepted ==
    run = 2 => /\ terr = NoError
               /\ tstate # "raised"
               /\ (Len(pret) >= 1 => pret[1].err = NoError)

\* C1 witness: the compiled form "(a)*" of a starred pattern went through
\* the tokenizer and the parser again.
C1_Witness ==
    /\ run = 2
    /\ Parsed
    /\ tree.type = "STAR"
    /\ tree.left.type = "GROUP"
    /\ Len(regex) >= 4

\* C2: whenever parse returns a tree, the parser's cursor has consumed
\* every token of the list it was given.
C2_ParseConsumesAllTokens ==
    Parsed => parser.st.pos = Len(parser.tokens)

\* C3: a parse call that runs out of tokens raises a declared syntax error
\* (a ValueError of the parser), never the interpreter's AttributeError on
\* the absent current token.
C3_EndOfInputIsSyntaxError ==
    Len(pret) >= 1 => pret[1].err # AttributeError

\* the characters a token was made from
Lexeme(tok) ==
    IF tok.type = "CLASS" THEN <<"[">> \o tok.value \o <<"]">>
    ELSE IF tok.type = "ESCAPED_CHAR" THEN <<"\\">> \o tok.value
    ELSE tok.value

RECURSIVE Lexemes(_)
Lexemes(toks) ==
    IF toks = <<>> THEN <<>> ELSE Lexeme(Head(toks)) \o Lexemes(Tail(toks))

\* C4: every token returned by tokenize has a non-empty text; a CLASS
\* token's text is the characters strictly between '[' and the next ']', a
\* QUANT token's text those from '{' through the next '}'.
C4_TokenTextInvariant ==
    Tokenized =>
        /\ \A i \in 1..Len(tokens) : tokens[i].value # <<>>
        /\ Lexemes(tokens) = regex
        /\ \A i \in 1..Len(tokens) :
            LET v == tokens[i].value IN
            /\ tokens[i].type = "CLASS" => \A k \in 1..Len(v) : v[k] # "]"
            /\ tokens[i].type = "QUANT" =>
                /\ Len(v) >= 2
                /\ v[1] = "{"
                /\ v[Len(v)] = "}"
                /\ \A k \in 1..(Len(v) - 1) : v[k] # "}"

\* C8: a second tokenize() call on the same Tokenizer returns the list the
\* first call returned, and a second parse() call on the same Parser
\* returns a tree equal to the first.
C8_CallsAreIndependent ==
    /\ Len(tret) >= 2 => tret[2] = tret[1]
    /\ (Len(pret) >= 2 /\ pret[1].err = NoError) => pret[2] = pret[1]

(***************************************************************************)
(* C5: the tokenizer's failures, stated over token boundaries.             *)
(***************************************************************************)
\* the characters that may stand at a token boundary
Supported ==
    Alnum \cup Symbols \cup {"\\", "*", "|", ".", "^", "$", "[", "{", "(", ")"}

\* the kind of a one-character token
KindOf(c) ==
    CASE c = "*" -> "STAR"
      [] c = "|" -> "ALT"
      [] c = "^" -> "START"
      [] c = "$" -> "END"
      [] c = "(" -> "LPAREN"
      [] c = ")" -> "RPAREN"
      [] OTHER -> "CHAR"

\* the 1-based places of the delimiter d after the opening character at
\* the 0-based boundary i
Closers(p, i, d) == {j \in (i + 2)..Len(p) : p[j] = d}
Least(S) == CHOOSE x \in S : \A y \in S : x <= y

\* from boundary i with the tokens toks before it: the first failure met,
\* or the whole token list
RECURSIVE LexFrom(_, _, _)
LexFrom(p, i, toks) ==
    IF i >= Len(p) THEN [err |-> NoError, toks |-> toks]
    ELSE LET c == p[i + 1] IN
    CASE c = "\\" ->
            IF i + 1 = Len(p) THEN [err |-> BackslashAtEnd, toks |-> <<>>]
            ELSE LexFrom(p, i + 2, Append(toks, Token("ESCAPED_CHAR", <<p[i + 2]>>)))
      [] c = "[" ->
            IF Closers(p, i, "]") = {} THEN [err |-> UnclosedClass, toks |-> <<>>]
            ELSE LET j == Least(Closers(p, i, "]")) IN
                 LexFrom(p, j, Append(toks, Token("CLASS", SubSeq(p, i + 2, j - 1))))
      [] c = "{" ->
            IF Closers(p, i, "}") = {} THEN [err |-> UnclosedQuantifier, toks |-> <<>>]
            ELSE LET j == Least(Closers(p, i, "}")) IN
                 LexFrom(p, j, Append(toks, Token("QUANT", SubSeq(p, i + 1, j))))
      [] c \notin Supported -> [err |-> UnknownCharacter, toks |-> <<>>]
      [] OTHER -> LexFrom(p, i + 1, Append(toks, Token(KindOf(c), <<c>>)))

\* C5: tokenize raises exactly the error of the first failing token
\* boundary (a final backslash, a '[' with no ']' after it, a '{' with no
\* '}' after it, an unsupported character) and returns nothing then; in
\* every other case it returns the token list, in which a class body holds
\* its backslashes verbatim and a backslash at a boundary gives one
\* ESCAPED_CHAR token with the next character.
C5_TokenizerFailures ==
    LET lex == LexFrom(regex, 0, <<>>) IN
    /\ tstate = "raised" => /\ terr = lex.err
                            /\ lex.err # NoError
                            /\ tret = <<>>
    /\ Tokenized => /\ lex.err = NoError
                    /\ terr = NoError
                    /\ tokens = lex.toks
    /\ (tstate = "loop" /\ tret = <<>>) =>
            /\ Len(tlist) <= Len(lex.toks) \/ lex.err # NoError
            /\ lex.err = NoError => tlist = SubSeq(lex.toks, 1, Len(tlist))

\* C5 witness: "a[\": the '[' has no ']' after it, and the backslash, which
\* is the last character, lies in the class body: the error is the unclosed
\* class, not the backslash at the end.
C5_Witness ==
    /\ tstate = "raised"
    /\ terr = UnclosedClass
    /\ Len(regex) >= 3
    /\ regex[Len(regex)] = "\\"
    /\ Len(tlist) >= 1

(***************************************************************************)
(* C6: the serializer's mapping.                                           *)
(***************************************************************************)
Wrap(open, body, close) == open \o body \o close

\* the mapping as a table over the node kinds
RECURSIVE Serialize(_)
Serialize(n) ==
    CASE n.type \in {"CHAR"} -> n.value
      [] n.type = "ESCAPED_CHAR" -> Wrap(<<"\\">>, n.value, <<>>)
      [] n.type = "CLASS" -> Wrap(<<"[">>, n.value, <<"]">>)
      [] n.type = "START" -> <<"^">>
      [] n.type = "END" -> <<"$">>
      [] n.type = "CONCAT" -> Wrap(<<>>, Serialize(n.left), Serialize(n.right))
      [] n.type = "STAR" -> Wrap(<<"(">>, Serialize(n.left), <<")", "*">>)
      [] n.type = "ALT" ->
            Wrap(<<"(">>, Wrap(Serialize(n.left), <<"|">>, Serialize(n.right)), <<")">>)
      [] n.type = "QUANT" -> Wrap(<<>>, Serialize(n.left), n.right.value)
      [] n.type = "GROUP" -> Wrap(<<"(">>, Serialize(n.left), <<")">>)

\* C6: for every tree parse returns, compile gives the string of the
\* mapping; "a|a" compiles to "(a|a)", "a*" to "(a)*", "a." to "a." and
\* "a{a}" to "a{a}".
C6_SerializerMapping ==
    (run = 1 /\ ~IsNone(compiled_regex)) =>
        /\ compiled_regex.value = Serialize(tree)
        /\ regex = <<"a", "|", "a">> => compiled_regex.value = <<"(", "a", "|", "a", ")">>
        /\ regex = <<"a", "*">> => compiled_regex.value = <<"(", "a", ")", "*">>
        /\ regex = <<"a", ".">> => compiled_regex.value = <<"a", ".">>
        /\ regex = <<"a", "{", "a", "}">> => compiled_regex.value = regex

\* C6 witness: "a*" was compiled to "(a)*".
C6_Witness ==
    /\ run = 1
    /\ regex = <<"a", "*">>
    /\ ~IsNone(compiled_regex)
    /\ compiled_regex.value = <<"(", "a", ")", "*">>

(***************************************************************************)
(* C7: the shape of the tree.                                              *)
(***************************************************************************)
OperandTypes == LeafTypes \cup {"GROUP", "STAR", "QUANT"}

RECURSIVE WellShaped(_)
WellShaped(n) ==
    CASE n.type = "CONCAT" ->
            /\ n.right.type # "CONCAT"
            /\ n.left.type # "ALT"
            /\ n.right.type # "ALT"
            /\ n.right.type \in OperandTypes
            /\ WellShaped(n.left)
            /\ WellShaped(n.right)
      [] n.type = "ALT" ->
            /\ n.right.type # "ALT"
            /\ WellShaped(n.left)
            /\ WellShaped(n.right)
      [] n.type \in {"STAR", "QUANT"} ->
            /\ n.left.type \in OperandTypes
            /\ WellShaped(n.left)
      [] n.type = "GROUP" -> WellShaped(n.left)
      [] OTHER -> n.type \in LeafTypes

\* C7: in every tree parse returns, the right child of a CONCAT is no
\* CONCAT and that of an ALT no ALT (chains nest to the left), no child of
\* a CONCAT is an ALT, and the operand of a STAR or QUANT is a leaf, a
\* GROUP, a STAR or a QUANT; "aaa" is CONCAT(CONCAT(a,a),a), "a**" is
\* STAR(STAR(a)) and "a.*" is CONCAT(a,STAR(.)).
C7_TreeShape ==
    Parsed =>
        /\ WellShaped(tree)
        /\ parser.tokens = <<Token("CHAR", <<"a">>), Token("CHAR", <<"a">>),
                             Token("CHAR", <<"a">>)>>
            => (tree.type = "CONCAT" /\ tree.left.type = "CONCAT")
        /\ parser.tokens = <<Token("CHAR", <<"a">>), Token("STAR", <<"*">>),
                             Token("STAR", <<"*">>)>>
            => (tree.type = "STAR" /\ tree.left.type = "STAR")
        /\ parser.tokens = <<Token("CHAR", <<"a">>), Token("CHAR", <<".">>),
                             Token("STAR", <<"*">>)>>
            => (tree.type = "CONCAT" /\ tree.right.type = "STAR")

\* C7 witness: "a|a|a" was parsed to ALT(ALT(a,a),a).
C7_Witness ==
    /\ Parsed
    /\ run = 1
    /\ Len(regex) = 5
    /\ tree.type = "ALT"
    /\ tree.left.type = "ALT"
    /\ tree.right.type = "CHAR"

(***************************************************************************)
(* C9: no DOT token.                                                       *)
(***************************************************************************)
RECURSIVE HasNode(_, _)
HasNode(n, type) ==
    \/ n.type = type
    \/ n.type \in {"CONCAT", "ALT"} /\ (HasNode(n.left, type) \/ HasNode(n.right, type))
    \/ n.type \in {"STAR", "QUANT", "GROUP"} /\ HasNode(n.left, type)

\* the 0-based position at which the i-th token of toks begins
Boundary(toks, i) == Len(Lexemes(SubSeq(toks, 1, i - 1)))

\* C9: the tokenizer never makes a DOT token: a '.' at a token boundary
\* becomes a CHAR token with text '.', and no tree parsed from the
\* tokenizer's output has a DOT leaf.
C9_NoDotToken ==
    /\ \A i \in 1..Len(tlist) :
        /\ tlist[i].type # "DOT"
        /\ regex[Boundary(tlist, i) + 1] = "." => tlist[i] = Token("CHAR", <<".">>)
    /\ \A k \in 1..Len(tret) : \A i \in 1..Len(tret[k]) : tret[k][i].type # "DOT"
    /\ Parsed => ~HasNode(tree, "DOT")

\* C9 witness: a pattern beginning with '.' was tokenized, parsed and
\* compiled, its first token being CHAR '.'.
C9_Witness ==
    /\ run = 1
    /\ regex # <<>>
    /\ regex[1] = "."
    /\ Parsed
    /\ ~IsNone(compiled_regex)
    /\ tokens[1] = Token("CHAR", <<".">>)

(***************************************************************************)
(* C10: the cursor moves forward and tokenize ends.                        *)
(***************************************************************************)
\* C10: within a tokenize run on a pattern of length n, pos never
\* decreases and stays in 0..n; a get_next_token call either raises or
\* returns one token with pos increased by at least 1; a run makes at most
\* n get_next_token calls.
C10_CursorMovesForward ==
    [][run' = run =>
        /\ pos' >= pos
        /\ 0 <= pos'
        /\ pos' <= Len(regex')
        /\ gnt_calls' <= Len(regex')
        /\ gnt_calls' = gnt_calls + 1 =>
            \/ tstate' = "raised"
            \/ /\ tlist' = Append(tlist, tlist'[Len(tlist')])
               /\ pos' > pos]_vars

\* C10 witness: a tokenize run returned after a scan of a class or a
\* quantifier of several characters: fewer calls than characters, the
\* cursor at the end of the pattern.
C10_Witness ==
    /\ Tokenized
    /\ Len(tret) = 1
    /\ tstate = "idle"
    /\ pos = Len(regex)
    /\ gnt_calls >= 2
    /\ gnt_calls + 2 <= Len(regex)
    /\ \E i \in 1..Len(tokens) : tokens[i].type \in {"CLASS", "QUANT"}

====
